---- MODULE Spec2Model ----
(***************************************************************************)
(* A model of github.com/trevatk/log (src/log.go): a leveled logger that   *)
(* filters emission calls against a minimum level, renders a JSON record,  *)
(* writes it to an io.Writer under a mutex and ends the process on FATAL.  *)
(*                                                                         *)
(* Strings that the code inspects character by character (the argument of  *)
(* WithLevel) are sequences of one-character strings; all other strings    *)
(* are opaque.  A byte slice is a sequence of tokens [k, v]: one token per *)
(* JSON member, one for the trailing newline, one per diagnostic text.     *)
(***************************************************************************)
EXTENDS Integers, Sequences, FiniteSets, TLC

VARIABLES
    opts,     \* the options New was called with, in argument order
    l,        \* the Logger's configuration fields (minLevel, name, stacktrace, includeCaller)
    mu,       \* l.mu: the thread holding the mutex, or NoThread
    sink,     \* l.w: the Write calls made on the writer, in order, with their outcome
    pc,       \* per thread: its position in logMsg
    frame,    \* per thread: logMsg's parameters and locals
    calls,    \* one record per emission call started so far: the call site and how it ended
    budget,   \* the number of emission calls the program has yet to start
    exited    \* the process's exit status, or Running

vars == <<opts, l, mu, sink, pc, frame, calls, budget, exited>>

----------------------------------------------------------------------------
\* Bounds of the model.

\* the number of emission calls a behaviour makes in total
MaxCalls == 2

\* the longest argument list of a formatted call
MaxArgs == 2

----------------------------------------------------------------------------
\* Level (log.go:31-41)

DEBUG == 0
INFO == 1
WARN == 2
ERROR == 3
FATAL == 4

Levels == {DEBUG, INFO, WARN, ERROR, FATAL}

colorReset == "reset"
colorRed == "red"
colorGreen == "green"
colorYellow == "yellow"
colorPurple == "purple"
colorCyan == "cyan"

\* Level.string
string(lvl) ==
    CASE lvl = INFO -> "INFO"
      [] lvl = WARN -> "WARN"
      [] lvl = ERROR -> "ERROR"
      [] lvl = FATAL -> "FATAL"
      [] OTHER -> "DEBUG"

\* The letters of the level names, as <<lower, upper>> pairs, and some
\* characters without case.
CasePairs ==
    { <<"i", "I">>, <<"n", "N">>, <<"f", "F">>, <<"o", "O">>, <<"w", "W">>,
      <<"a", "A">>, <<"r", "R">>, <<"e", "E">>, <<"t", "T">>, <<"l", "L">>,
      <<"d", "D">>, <<"b", "B">>, <<"u", "U">>, <<"g", "G">>, <<"s", "S">> }

\* unicode.ToLower on one character
ToLowerChar(ch) ==
    IF \E p \in CasePairs : p[2] = ch
    THEN (CHOOSE p \in CasePairs : p[2] = ch)[1]
    ELSE ch

\* strings.ToLower
ToLower(s) == [i \in 1..Len(s) |-> ToLowerChar(s[i])]

\* a level parser that compares the string as given
levelFromStringExact(lvl) ==
    CASE lvl = <<"i", "n", "f", "o">> -> INFO
      [] lvl = <<"w", "a", "r", "n">> -> WARN
      [] lvl = <<"e", "r", "r", "o", "r">> -> ERROR
      [] lvl = <<"f", "a", "t", "a", "l">> -> FATAL
      [] OTHER -> DEBUG

levelFromString(lvl) ==
    LET low == ToLower(lvl) IN
    CASE low = <<"i", "n", "f", "o">> -> INFO
      [] low = <<"w", "a", "r", "n">> -> WARN
      [] low = <<"e", "r", "r", "o", "r">> -> ERROR
      [] low = <<"f", "a", "t", "a", "l">> -> FATAL
      [] OTHER -> DEBUG

colorFromLevel(level) ==
    CASE level = DEBUG -> colorCyan
      [] level = INFO -> colorGreen
      [] level = WARN -> colorYellow
      [] level = ERROR -> colorRed
      [] level = FATAL -> colorPurple
      [] OTHER -> colorReset

----------------------------------------------------------------------------
\* Logger construction (log.go:100-162)

\* the zero-valued Logger New starts from
ZeroLogger == [minLevel |-> DEBUG, name |-> "", includeCaller |-> FALSE, stacktrace |-> FALSE]

\* A LoggerOption is a closure over one argument; it is modelled by the
\* option's name and that argument, and Apply runs it on a Logger.
WithName(n) == [opt |-> "WithName", name |-> n]

WithLevel(level) == [opt |-> "WithLevel", level |-> level]

WithCaller(includeCaller) == [opt |-> "WithCaller", flag |-> includeCaller]

WithStacktrace(stacktrace) == [opt |-> "WithStacktrace", flag |-> stacktrace]

Apply(o, lg) ==
    CASE o.opt = "WithName" -> [lg EXCEPT !.name = o.name]
      [] o.opt = "WithLevel" -> [lg EXCEPT !.minLevel = levelFromString(o.level)]
      [] o.opt = "WithCaller" -> [lg EXCEPT !.includeCaller = o.flag]
      [] o.opt = "WithStacktrace" -> [lg EXCEPT !.stacktrace = o.flag]

RECURSIVE ApplyAll(_, _)
ApplyAll(os, lg) ==
    IF os = <<>> THEN lg ELSE ApplyAll(Tail(os), Apply(Head(os), lg))

\* New: the options applied in argument order to a zero-valued Logger
New(os) == ApplyAll(os, ZeroLogger)

----------------------------------------------------------------------------
\* Record construction and encoding (log.go:20-28, 224, 240-261)

\* debug.Stack(): the text of the calling goroutine's stack, never empty
Stack == "goroutine 1 [running]"

\* time.Now().Format("2006-01-02 15:04:05")
Now == "2006-01-02 15:04:05"

\* values a caller passes as arguments; NaN stands for the values
\* encoding/json refuses (NaN, channels, functions)
NaN == "NaN"
Values == {"1", NaN}

ZeroEntry ==
    [Name |-> "", Level |-> "", Caller |-> "", Message |-> "", Fields |-> <<>>,
     Stacktrace |-> <<>>, Timestamp |-> ""]

\* fmt.Sprintf(" %sstracktrace %s%s", colorFromLevel(level), colorReset, stack),
\* kept as its pieces
StackText(level) == <<" ", colorFromLevel(level), "stracktrace ", colorReset, Stack>>

\* the loop of Logger.fmt over args[i..]
RECURSIVE fmtLoop(_, _, _, _, _)
fmtLoop(lg, en, level, args, i) ==
    IF i > Len(args) THEN en
    ELSE LET en1 == [en EXCEPT !.Fields = Append(@, args[i])]
             en2 == IF (level = ERROR \/ level = FATAL) /\ lg.stacktrace
                    THEN [en1 EXCEPT !.Stacktrace = StackText(level)]
                    ELSE en1
         IN fmtLoop(lg, en2, level, args, i + 1)

\* Logger.fmt
fmt(lg, level, format, args) ==
    fmtLoop(lg,
            [ZeroEntry EXCEPT !.Level = string(level), !.Message = format,
                              !.Name = lg.name, !.Timestamp = Now],
            level, args, 1)

\* one member of the encoded object; every value is a sequence of strings
Member(k, v) == [k |-> k, v |-> v]

\* the `omitempty` members are left out when their value is the zero value
Members(en) ==
       (IF en.Name = "" THEN <<>> ELSE <<Member("name", <<en.Name>>)>>)
    \o <<Member("level", <<en.Level>>)>>
    \o (IF en.Caller = "" THEN <<>> ELSE <<Member("caller", <<en.Caller>>)>>)
    \o (IF en.Message = "" THEN <<>> ELSE <<Member("msg", <<en.Message>>)>>)
    \o (IF Len(en.Fields) = 0 THEN <<>> ELSE <<Member("fields", en.Fields)>>)
    \o (IF en.Stacktrace = <<>> THEN <<>> ELSE <<Member("stacktrace", en.Stacktrace)>>)
    \o <<Member("timestamp", <<en.Timestamp>>)>>

\* json.Marshal's error result: some field value cannot be encoded
MarshalErr(en) == \E i \in 1..Len(en.Fields) : en.Fields[i] = NaN

\* an encoder that returns what it has built when it fails
MarshalBytesPartial(en) == Members(en)

\* json.Marshal's byte result: nil when it fails
MarshalBytes(en) == IF MarshalErr(en) THEN <<>> ELSE Members(en)

Newline == Member("\n", <<>>)

\* json.Unmarshal into an entry, for a reader of the sink: absent members
\* keep the zero value
Has(bytes, k) == \E i \in 1..Len(bytes) : bytes[i].k = k

Get(bytes, k) == bytes[CHOOSE i \in 1..Len(bytes) : bytes[i].k = k].v

Str(bytes, k) == IF Has(bytes, k) THEN Get(bytes, k)[1] ELSE ""

Unmarshal(bytes) ==
    [Name |-> Str(bytes, "name"), Level |-> Str(bytes, "level"),
     Caller |-> Str(bytes, "caller"), Message |-> Str(bytes, "msg"),
     Fields |-> IF Has(bytes, "fields") THEN Get(bytes, "fields") ELSE <<>>,
     Stacktrace |-> IF Has(bytes, "stacktrace") THEN Get(bytes, "stacktrace") ELSE <<>>,
     Timestamp |-> Str(bytes, "timestamp")]

\* the text fmt.Fprintf hands to the writer in one Write call
Text(pieces) == <<Member("text", pieces)>>

----------------------------------------------------------------------------
\* The running program: threads calling the emission methods of one Logger

Threads == {"t1", "t2"}

NoThread == "none"

Running == -1

NoFrame == [id |-> 0, level |-> DEBUG, format |-> "", args |-> <<>>, entrybytes |-> <<>>]

\* what the plain methods pass as the template
Verb == "%s"

\* one Write call on l.w, made by call `id` at the named statement
WriteCall(id, stmt, bytes, err) == [id |-> id, stmt |-> stmt, bytes |-> bytes, err |-> err]

\* a level check that also suppresses the minimum level itself
SuppressedAtMin(lg, level) == lg.minLevel >= level

\* if l.minLevel > level { return }
Suppressed(lg, level) == lg.minLevel > level

\* Logger.logMsg, entered from public method `method` called with (cformat, cargs):
\* the level check, and the return of a suppressed call
logMsg(t, method, cformat, cargs, level, format, args) ==
    /\ exited = Running
    /\ pc[t] = "idle"
    /\ budget > 0
    /\ budget' = budget - 1
    /\ LET site == [method |-> method, format |-> cformat, args |-> cargs,
                    level |-> level]
       IN IF Suppressed(l, level)
          THEN /\ calls' = Append(calls, site @@ [end |-> "suppressed"])
               /\ UNCHANGED <<pc, frame>>
          ELSE /\ calls' = Append(calls, site @@ [end |-> "running"])
               /\ pc' = [pc EXCEPT ![t] = "Lock"]
               /\ frame' = [frame EXCEPT ![t] =
                               [NoFrame EXCEPT !.id = Len(calls) + 1, !.level = level,
                                               !.format = format, !.args = args]]
    /\ UNCHANGED <<opts, l, mu, sink, exited>>

Debug(t, format) == logMsg(t, "Debug", format, <<>>, DEBUG, Verb, <<format>>)

Debugf(t, format, args) == logMsg(t, "Debugf", format, args, DEBUG, format, args)

Info(t, format) == logMsg(t, "Info", format, <<>>, INFO, Verb, <<format>>)

Infof(t, format, args) == logMsg(t, "Infof", format, args, INFO, format, args)

Warn(t, format) == logMsg(t, "Warn", format, <<>>, WARN, Verb, <<format>>)

Warnf(t, format, args) == logMsg(t, "Warnf", format, args, WARN, format, args)

Error(t, format) == logMsg(t, "Error", format, <<>>, ERROR, Verb, <<format>>)

Errorf(t, format, args) == logMsg(t, "Errorf", format, args, ERROR, format, args)

Fatal(t, format) == logMsg(t, "Fatal", format, <<>>, FATAL, Verb, <<format>>)

Fatalf(t, format, args) == logMsg(t, "Fatalf", format, args, FATAL, format, args)

\* a mutex that never makes its caller wait
NeverBlocks(t) == TRUE

\* sync.Mutex.Lock returns only when no thread holds the mutex
Unlocked(t) == mu = NoThread

\* l.mu.Lock(), then the record is built and encoded (log.go:220-225)
Lock(t) ==
    /\ exited = Running
    /\ pc[t] = "Lock"
    /\ Unlocked(t)
    /\ mu' = t
    /\ LET logEntry == fmt(l, frame[t].level, frame[t].format, frame[t].args)
       IN /\ frame' = [frame EXCEPT ![t].entrybytes = MarshalBytes(logEntry)]
          /\ pc' = [pc EXCEPT ![t] = IF MarshalErr(logEntry) THEN "MarshalFailed" ELSE "Write"]
    /\ UNCHANGED <<opts, l, sink, calls, budget, exited>>

\* fmt.Fprintf(l.w, "failed to marshal message %v original message %s", err, format)
MarshalFailed(t) ==
    /\ exited = Running
    /\ pc[t] = "MarshalFailed"
    /\ \E err \in BOOLEAN :
          sink' = Append(sink, WriteCall(frame[t].id, "marshal diagnostic",
                      Text(<<"failed to marshal message ", "json: unsupported value",
                             " original message ", frame[t].format>>), err))
    /\ pc' = [pc EXCEPT ![t] = "Write"]
    /\ UNCHANGED <<opts, l, mu, frame, calls, budget, exited>>

\* entrybytes = append(entrybytes, '\n'); _, err = l.w.Write(entrybytes)
Write(t) ==
    /\ exited = Running
    /\ pc[t] = "Write"
    /\ LET entrybytes == Append(frame[t].entrybytes, Newline)
       IN /\ frame' = [frame EXCEPT ![t].entrybytes = entrybytes]
          /\ \E err \in BOOLEAN :
                /\ sink' = Append(sink, WriteCall(frame[t].id, "record", entrybytes, err))
                /\ pc' = [pc EXCEPT ![t] = IF err THEN "WriteFailed" ELSE "End"]
    /\ UNCHANGED <<opts, l, mu, calls, budget, exited>>

\* a diagnostic that is written again when its own write fails
RetryDiagnostic(err) == IF err THEN "WriteFailed" ELSE "End"

\* the result of the diagnostic's Fprintf is discarded: logMsg goes on to its
\* last statement either way
AfterDiagnostic(err) == "End"

\* fmt.Fprintf(l.w, "failed to write to out: %v", err)
WriteFailed(t) ==
    /\ exited = Running
    /\ pc[t] = "WriteFailed"
    /\ \E err \in BOOLEAN :
          /\ sink' = Append(sink, WriteCall(frame[t].id, "write diagnostic",
                         Text(<<"failed to write to out: ", "write error">>), err))
          /\ pc' = [pc EXCEPT ![t] = AfterDiagnostic(err)]
    /\ UNCHANGED <<opts, l, mu, frame, calls, budget, exited>>

\* an exit taken as soon as the record is built
AtExitEarly(t) == pc[t] \in {"Write", "End"} /\ frame[t].level = FATAL

\* the last statement of logMsg, reached with level == FATAL
AtExit(t) == pc[t] = "End" /\ frame[t].level = FATAL

\* the status os.Exit is called with
ExitStatus == 1

\* if level == FATAL { os.Exit(1) }: the process ends at once; deferred calls
\* do not run
Exit(t) ==
    /\ exited = Running
    /\ AtExit(t)
    /\ exited' = ExitStatus
    /\ calls' = [calls EXCEPT ![frame[t].id].end = "exited"]
    /\ UNCHANGED <<opts, l, mu, sink, pc, frame, budget>>

\* an Unlock that leaves the mutex with its holder
StillHeld(t) == t

\* the mutex after the deferred l.mu.Unlock() by its holder t
Released(t) == NoThread

\* the end of logMsg for the other levels: the deferred l.mu.Unlock() runs and
\* the call returns
Return(t) ==
    /\ exited = Running
    /\ pc[t] = "End"
    /\ frame[t].level # FATAL
    /\ mu' = Released(t)
    /\ pc' = [pc EXCEPT ![t] = "idle"]
    /\ frame' = [frame EXCEPT ![t] = NoFrame]
    /\ calls' = [calls EXCEPT ![frame[t].id].end = "returned"]
    /\ UNCHANGED <<opts, l, sink, budget, exited>>

----------------------------------------------------------------------------
\* Inputs

RECURSIVE SeqsUpTo(_, _)
SeqsUpTo(S, n) ==
    IF n = 0 THEN {<<>>}
    ELSE LET shorter == SeqsUpTo(S, n - 1)
         IN shorter \cup {Append(s, x) : s \in {q \in shorter : Len(q) = n - 1}, x \in S}

\* the argument lists of the formatted methods
ArgLists == SeqsUpTo(Values, MaxArgs)

\* the messages and templates callers pass
Formats == {"", "boom %v"}

PlainMethods == {"Debug", "Info", "Warn", "Error", "Fatal"}

FormattedMethods == {"Debugf", "Infof", "Warnf", "Errorf", "Fatalf"}

Call(method, format, args) == [method |-> method, format |-> format, args |-> args]

\* every call of the public surface with the inputs above
AllCalls ==
    {Call(m, f, <<>>) : m \in PlainMethods, f \in Formats}
        \cup {Call(m, f, a) : m \in FormattedMethods, f \in Formats, a \in ArgLists}

\* the calls the threads of the concurrent program make: every level, records
\* that encode and records that do not
SharedCalls ==
    { Call("Debug", "boom %v", <<>>), Call("Infof", "boom %v", <<NaN>>),
      Call("Warn", "boom %v", <<>>), Call("Errorf", "boom %v", <<NaN>>),
      Call("Fatal", "boom %v", <<>>), Call("Fatalf", "boom %v", <<NaN>>) }

\* the level names in canonical spelling and in other casings
LevelNames == { <<"d", "e", "b", "u", "g">>, <<"I", "N", "F", "O">>, <<"W", "a", "r", "n">>,
                <<"e", "r", "r", "o", "r">>, <<"F", "A", "T", "A", "L">> }

\* every spelling of a lower-case word in upper and lower case letters
RECURSIVE Casings(_)
Casings(word) ==
    IF word = <<>> THEN {<<>>}
    ELSE {<<ch>> \o rest :
            ch \in {Head(word)} \cup {p[2] : p \in {q \in CasePairs : q[1] = Head(word)}},
            rest \in Casings(Tail(word))}

\* strings WithLevel may be given: the four names in every casing, and others
LevelStrings ==
    Casings(<<"i", "n", "f", "o">>) \cup Casings(<<"w", "a", "r", "n">>)
        \cup Casings(<<"e", "r", "r", "o", "r">>) \cup Casings(<<"f", "a", "t", "a", "l">>)
        \cup { <<>>, <<"d", "e", "b", "u", "g">>, <<"D", "E", "B", "U", "G">>,
               <<"t", "r", "a", "c", "e">>, <<"b", "o", "g", "u", "s">>,
               <<"i", "n", "f">>, <<"I", "N", "F", "O", "S">>, <<"w", "a", "r", "n", "i", "n", "g">>,
               <<"e", "r", "r">>, <<" ", "f", "a", "t", "a", "l">>, <<"1", "n", "f", "o">> }

----------------------------------------------------------------------------
\* Specifications

\* The state after New(WithLevel(lv), WithName(n), WithStacktrace(st)), in a
\* program that goes on to make n emission calls.
InitWith(levels, names, flags, n) ==
    /\ \E lv \in levels, nm \in names, st \in flags :
          opts = <<WithLevel(lv), WithName(nm), WithStacktrace(st)>>
    /\ l = New(opts)
    /\ mu = NoThread
    /\ sink = <<>>
    /\ pc = [t \in Threads |-> "idle"]
    /\ frame = [t \in Threads |-> NoFrame]
    /\ calls = <<>>
    /\ budget = n
    /\ exited = Running

\* a thread calls one of the public methods
Emit(t, c) ==
    CASE c.method = "Debug" -> Debug(t, c.format)
      [] c.method = "Debugf" -> Debugf(t, c.format, c.args)
      [] c.method = "Info" -> Info(t, c.format)
      [] c.method = "Infof" -> Infof(t, c.format, c.args)
      [] c.method = "Warn" -> Warn(t, c.format)
      [] c.method = "Warnf" -> Warnf(t, c.format, c.args)
      [] c.method = "Error" -> Error(t, c.format)
      [] c.method = "Errorf" -> Errorf(t, c.format, c.args)
      [] c.method = "Fatal" -> Fatal(t, c.format)
      [] c.method = "Fatalf" -> Fatalf(t, c.format, c.args)

Step(T, C) ==
    \/ \E t \in T, c \in C : Emit(t, c)
    \/ \E t \in T : Lock(t)
    \/ \E t \in T : MarshalFailed(t)
    \/ \E t \in T : Write(t)
    \/ \E t \in T : WriteFailed(t)
    \/ \E t \in T : Exit(t)
    \/ \E t \in T : Return(t)

\* Several threads share one Logger and make MaxCalls calls between them.
Init == InitWith(LevelNames, {"svc"}, {TRUE}, MaxCalls)

Next == Step(Threads, SharedCalls)

Spec == Init /\ [][Next]_vars

\* The same program, on a Logger at WARN, under a scheduler that lets every
\* thread run and a mutex that is granted to a thread that keeps asking for it.
InitFair == InitWith({<<"W", "a", "r", "n">>}, {"svc"}, {TRUE}, MaxCalls)

FairSpec ==
    /\ InitFair /\ [][Next]_vars
    /\ \A t \in Threads :
          /\ SF_vars(Lock(t))
          /\ WF_vars(MarshalFailed(t) \/ Write(t) \/ WriteFailed(t))
          /\ WF_vars(Exit(t) \/ Return(t))

\* One thread makes one call: every method, template and argument list, on
\* a Logger with every minimum level, with and without a name and stack traces.
InitOne == InitWith(LevelNames, {"", "svc"}, BOOLEAN, 1)

NextOne == Step({"t1"}, AllCalls)

SpecOne == InitOne /\ [][NextOne]_vars

\* One thread makes one call on a Logger whose level was given as any of
\* LevelStrings.
InitLevel == InitWith(LevelStrings, {"svc"}, {FALSE}, 1)

NextLevel ==
    Step({"t1"}, {Call(m, "boom %v", <<>>) : m \in PlainMethods}
                    \cup {Call(m, "boom %v", <<NaN>>) : m \in FormattedMethods})

SpecLevel == InitLevel /\ [][NextLevel]_vars

----------------------------------------------------------------------------
\* What the claims speak of

\* the positions of logMsg between l.mu.Lock() and the end of the function
Critical == {"MarshalFailed", "Write", "WriteFailed", "End"}

CallIds == 1..Len(calls)

\* the Write calls that call `id` made on the sink, as positions in the sink
WritesOf(id) == {i \in 1..Len(sink) : sink[i].id = id}

Count(id, stmt) == Cardinality({i \in WritesOf(id) : sink[i].stmt = stmt})

Ended(id) == calls[id].end # "running"

\* the record of the call can be encoded: no argument is a value JSON refuses
Encodable(id) == \A i \in 1..Len(calls[id].args) : calls[id].args[i] # NaN

\* the call's write of its record failed
RecordFailed(id) == \E i \in WritesOf(id) : sink[i].stmt = "record" /\ sink[i].err

\* the writes a call that passes the level check makes: its record, and one
\* diagnostic for each of the two failures
WritesDue(id) ==
    1 + (IF Encodable(id) THEN 0 ELSE 1) + (IF RecordFailed(id) THEN 1 ELSE 0)

----------------------------------------------------------------------------
\* C1 as stated: a call that has ended made no write on the sink if and only
\* if its level is below the Logger's minimum level, and otherwise made exactly
\* one write, of a non-empty byte slice.
C1_OneWriteOrNone ==
    \A id \in CallIds :
        Ended(id) =>
            /\ WritesOf(id) = {} <=> calls[id].level < l.minLevel
            /\ calls[id].level >= l.minLevel =>
                  /\ Cardinality(WritesOf(id)) = 1
                  /\ \A i \in WritesOf(id) : sink[i].bytes # <<>>

\* C1 amended: a call that has ended made no write on the sink if and only if
\* its level is below the minimum level; otherwise it made exactly one write of
\* its record, never empty, and one more write for each failure: a diagnostic
\* when the record cannot be encoded and a diagnostic when the record's write
\* fails.  It made exactly one write when neither happened.
C1_FilterAndWrites ==
    \A id \in CallIds :
        Ended(id) =>
            /\ WritesOf(id) = {} <=> calls[id].level < l.minLevel
            /\ calls[id].end = "suppressed" <=> calls[id].level < l.minLevel
            /\ calls[id].level >= l.minLevel =>
                  /\ Count(id, "record") = 1
                  /\ Cardinality(WritesOf(id)) = WritesDue(id)
                  /\ \A i \in WritesOf(id) : sink[i].bytes # <<>>

\* A Logger at WARN has suppressed an INFO call and written a WARN call's
\* record in exactly one write.
C1_Witness ==
    /\ l.minLevel = WARN
    /\ \E a, b \in CallIds :
          /\ calls[a].level = INFO /\ calls[a].end = "suppressed"
          /\ calls[b].level = WARN /\ calls[b].end = "returned"
          /\ Cardinality(WritesOf(b)) = 1

----------------------------------------------------------------------------
\* C2: at most one thread is between Lock and Unlock; a thread is there exactly
\* when it holds the mutex; a call that has written to the sink and has not
\* returned holds the mutex; and the writes of one call are never separated in
\* the sink by a write of another call.
C2_WritesUnderLock ==
    /\ Cardinality({t \in Threads : pc[t] \in Critical}) <= 1
    /\ \A t \in Threads : pc[t] \in Critical <=> mu = t
    /\ \A t \in Threads : pc[t] # "idle" /\ WritesOf(frame[t].id) # {} => mu = t
    /\ \A i, j, k \in 1..Len(sink) :
          i < j /\ j < k /\ sink[i].id = sink[k].id => sink[j].id = sink[i].id

\* One thread has written a diagnostic and its record and is about to write
\* another diagnostic, while the other thread waits for the mutex.
C2_Witness ==
    /\ pc["t1"] = "WriteFailed"
    /\ pc["t2"] = "Lock"
    /\ Count(frame["t1"].id, "marshal diagnostic") = 1

----------------------------------------------------------------------------
\* C3 as stated: when the process has exited, its status is 1 and the call
\* that ended it made exactly one write on the sink.
C3_ExitAfterOneWrite ==
    exited # Running =>
        /\ exited = 1
        /\ \E id \in CallIds :
              calls[id].end = "exited" /\ Cardinality(WritesOf(id)) = 1

\* C3 amended: a Fatal or Fatalf call is never suppressed and never returns;
\* the process exits only from such a call, with status 1, after that call has
\* made exactly one write attempt of its record, whether it failed or not, and
\* one diagnostic write for each failure (encoding, record write).
C3_FatalExit ==
    /\ \A id \in CallIds :
          /\ calls[id].level = FATAL => calls[id].end \in {"running", "exited"}
          /\ calls[id].end = "exited" => calls[id].level = FATAL /\ exited = 1
    /\ exited # Running =>
          /\ exited = 1
          /\ \E id \in CallIds :
                /\ calls[id].end = "exited"
                /\ Count(id, "record") = 1
                /\ Cardinality(WritesOf(id)) = WritesDue(id)

\* A Logger at FATAL has exited from a call whose record write failed.
C3_Witness ==
    /\ l.minLevel = FATAL
    /\ exited = 1
    /\ \E id \in CallIds : calls[id].end = "exited" /\ RecordFailed(id)

----------------------------------------------------------------------------
\* C4 as stated: a thread that is not inside an emission call does not hold
\* the mutex, and the process never exits while the mutex is held.
C4_LockReleasedOnEveryPath ==
    /\ \A t \in Threads : pc[t] = "idle" => mu # t
    /\ exited # Running => mu = NoThread

----------------------------------------------------------------------------
\* the records on the sink: the writes of an encoded record
Records == {i \in 1..Len(sink) : sink[i].stmt = "record" /\ Has(sink[i].bytes, "level")}

\* C5 as stated: a record on the sink carries a stack trace if and only if the
\* call's level is ERROR or FATAL and the Logger's stacktrace flag is set.
C5_StacktraceIffErrorAndFlag ==
    \A i \in Records :
        Unmarshal(sink[i].bytes).Stacktrace # <<>>
            <=> calls[sink[i].id].level \in {ERROR, FATAL} /\ l.stacktrace

----------------------------------------------------------------------------
\* C6 as stated: a record on the sink, parsed, gives the Logger's name, the
\* upper-case name of the call's level and what the caller passed: template
\* and arguments for a formatted call, the message for a plain call.
C6_RoundTrip ==
    \A i \in Records :
        LET en == Unmarshal(sink[i].bytes)
            site == calls[sink[i].id]
        IN /\ en.Name = l.name
           /\ en.Level = string(site.level)
           /\ en.Message = site.format
           /\ site.method \in FormattedMethods => en.Fields = site.args

----------------------------------------------------------------------------
\* the first option New was given is WithLevel(s)
LevelArg == opts[1].level

\* s spells word, letter by letter, in upper or lower case
Spells(s, word) ==
    /\ Len(s) = Len(word)
    /\ \A i \in 1..Len(word) : s[i] = word[i] \/ <<word[i], s[i]>> \in CasePairs

\* C7: the minimum level of a Logger built with WithLevel(s) is INFO, WARN,
\* ERROR or FATAL when s spells that name in any casing and DEBUG for every
\* other s; in the latter case no emission call is suppressed.
C7_PermissiveLevel ==
    LET named == [lv \in {INFO, WARN, ERROR, FATAL} |->
                     Spells(LevelArg, CASE lv = INFO -> <<"i", "n", "f", "o">>
                                        [] lv = WARN -> <<"w", "a", "r", "n">>
                                        [] lv = ERROR -> <<"e", "r", "r", "o", "r">>
                                        [] lv = FATAL -> <<"f", "a", "t", "a", "l">>)]
    IN /\ \A lv \in DOMAIN named : named[lv] => l.minLevel = lv
       /\ (\A lv \in DOMAIN named : ~named[lv]) =>
             /\ l.minLevel = DEBUG
             /\ \A id \in CallIds : calls[id].end # "suppressed"

\* A Logger built with WithLevel("bogus") has written the record of a Debug
\* call.
C7_Witness ==
    /\ LevelArg = <<"b", "o", "g", "u", "s">>
    /\ \E id \in CallIds :
          calls[id].method = "Debug" /\ calls[id].end = "returned" /\ WritesOf(id) # {}

----------------------------------------------------------------------------
\* C8: under a fair scheduler and a fairly granted mutex, a thread inside an
\* emission call eventually is outside it again, or the process has exited.
C8_CallsFinish ==
    \A t \in Threads : (pc[t] # "idle") ~> (pc[t] = "idle" \/ exited # Running)

\* A thread waits for the mutex that the other thread holds.
C8_Witness ==
    \E t, u \in Threads : pc[t] = "Lock" /\ mu = u /\ u # t

----------------------------------------------------------------------------
\* C9: a call makes a diagnostic write for a failed record write exactly when
\* its record write failed, one and no more whatever the diagnostic's own
\* outcome, directly after the failed write; a call at a level other than FATAL
\* then returns, leaving the mutex free for the calls that follow.
C9_OneDiagnostic ==
    /\ \A id \in CallIds :
          /\ Count(id, "write diagnostic") <= 1
          /\ Ended(id) => (Count(id, "write diagnostic") = 1 <=> RecordFailed(id))
          /\ Ended(id) /\ calls[id].level # FATAL /\ calls[id].level >= l.minLevel =>
                calls[id].end = "returned"
    /\ \A i \in 1..Len(sink) :
          sink[i].stmt = "write diagnostic" =>
              i > 1 /\ sink[i - 1].id = sink[i].id
                    /\ sink[i - 1].stmt = "record" /\ sink[i - 1].err
    /\ \A t \in Threads : pc[t] = "WriteFailed" => RecordFailed(frame[t].id)
    /\ \A t \in Threads : pc[t] \in {"idle", "Lock"} => mu # t

\* A call whose record write and diagnostic write both failed has returned,
\* and a later call has written its record.
C9_Witness ==
    \E a, b \in CallIds :
        /\ a < b
        /\ calls[a].end = "returned"
        /\ \E i \in WritesOf(a) : sink[i].stmt = "write diagnostic" /\ sink[i].err
        /\ \E i \in WritesOf(b) : sink[i].stmt = "record" /\ ~sink[i].err

----------------------------------------------------------------------------
\* C10 as stated: a call whose record cannot be encoded writes the diagnostic
\* and then attempts no other write on the sink.
C10_NoWriteAfterMarshalDiagnostic ==
    \A id \in CallIds :
        ~Encodable(id) /\ Ended(id) /\ calls[id].level >= l.minLevel =>
            /\ Count(id, "marshal diagnostic") = 1
            /\ Cardinality(WritesOf(id)) = 1

\* C10 amended: a call whose record cannot be encoded writes one diagnostic
\* that carries the original template; no member of the record is ever
\* written, and the record is not encoded again; the call still makes its one
\* record write, whose bytes are the newline alone, directly after the
\* diagnostic.
C10_RecordDropped ==
    \A id \in CallIds :
        ~Encodable(id) /\ Ended(id) /\ calls[id].level >= l.minLevel =>
            /\ Count(id, "marshal diagnostic") = 1
            /\ Count(id, "record") = 1
            /\ \A i \in WritesOf(id) :
                  /\ sink[i].stmt = "marshal diagnostic" =>
                        /\ \E j \in 1..Len(sink[i].bytes[1].v) :
                              sink[i].bytes[1].v[j] = calls[id].format
                        /\ i < Len(sink) /\ sink[i + 1].id = id
                        /\ sink[i + 1].stmt = "record"
                  /\ sink[i].stmt = "record" => sink[i].bytes = <<Newline>>

\* An Errorf call with an argument that cannot be encoded has returned after
\* the diagnostic and the newline were written.
C10_Witness ==
    \E id \in CallIds :
        /\ calls[id].method = "Errorf" /\ calls[id].end = "returned"
        /\ ~Encodable(id)
        /\ Cardinality(WritesOf(id)) = 2

====
